---- MODULE Spec2Model ----
(***************************************************************************)
(* CurrencyExchangeGraph (src/src/exchange-rate-graph.tsx): a React        *)
(* component with three pieces of state (exchangeData, isLoading, error),  *)
(* one mount effect that runs the async function fetchData, and a render   *)
(* function with two early returns (spinner, error banner) before the      *)
(* chart and its axis-bound computation.                                   *)
(*                                                                         *)
(* JavaScript runs each piece of fetchData between two awaits to           *)
(* completion, so the component can only be unmounted while fetchData is   *)
(* suspended at an await or after it has finished.  Every state setter is  *)
(* modelled as applied and rendered on its own (no batching); a batching   *)
(* renderer shows a subset of the views this model shows.                  *)
(*                                                                         *)
(* Strings that the code inspects are sequences of one-character strings.  *)
(* Numbers are exact decimals n / 10^e, or NaN, +Infinity, -Infinity.      *)
(***************************************************************************)
EXTENDS Integers, Sequences, FiniteSets, TLC

VARIABLES
    exchangeData,   \* useState<ExchangeRateData[]>([])
    isLoading,      \* useState<boolean>(true)
    error,          \* useState<string | null>(null)
    mounted,        \* the component instance is in the tree
    pc,             \* where fetchData stands
    effectPending,  \* the mount effect is scheduled and has not run yet
    fetchCount,     \* number of calls of fetch()
    response,       \* what the awaited fetch() resolved with
    caught,         \* the value bound to err in the catch block
    console,        \* what console.error has logged
    calls,          \* every call of a state setter, with mounted at that time
    view,           \* the output of the last render
    shown,          \* the kinds of view rendered so far
    unmountedAt     \* pc at the time of the unmount

vars == <<exchangeData, isLoading, error, mounted, pc, effectPending,
          fetchCount, response, caught, console, calls, view, shown,
          unmountedAt>>

\* Largest number of records in a response body of the model.
MaxRecords == 3
\* Cap on the number of fetch() calls the model follows.
MaxFetch == 2

NULL == "null"
None == [kind |-> "none"]

----------------------------------------------------------------------------
(* Numbers *)

Fin(n, e) == [k |-> "fin", n |-> n, e |-> e]
NaN == [k |-> "nan", n |-> 0, e |-> 0]
PosInf == [k |-> "pinf", n |-> 0, e |-> 0]
NegInf == [k |-> "ninf", n |-> 0, e |-> 0]
Thrown == [k |-> "throw", n |-> 0, e |-> 0]

RECURSIVE Pow10(_)
Pow10(e) == IF e = 0 THEN 1 ELSE 10 * Pow10(e - 1)

\* The one representation of the number n / 10^e.
RECURSIVE Norm(_, _)
Norm(n, e) == IF e > 0 /\ n % 10 = 0 THEN Norm(n \div 10, e - 1) ELSE Fin(n, e)

\* a < b as JavaScript compares numbers.
Lt(a, b) ==
    CASE a.k = "nan" \/ b.k = "nan" -> FALSE
      [] a.k = "ninf" -> b.k # "ninf"
      [] b.k = "pinf" -> a.k # "pinf"
      [] a.k = "pinf" \/ b.k = "ninf" -> FALSE
      [] OTHER -> a.n * Pow10(b.e) < b.n * Pow10(a.e)

\* x * (m / 10^e) for a positive factor m / 10^e.
MulDec(x, m, e) == IF x.k = "fin" THEN Norm(x.n * m, x.e + e) ELSE x

MathFloor(x) == IF x.k = "fin" THEN Fin(x.n \div Pow10(x.e), 0) ELSE x
MathCeil(x) == IF x.k = "fin" THEN Fin(0 - ((0 - x.n) \div Pow10(x.e)), 0) ELSE x

Min2(a, b) ==
    IF a.k = "nan" \/ b.k = "nan" THEN NaN ELSE IF Lt(b, a) THEN b ELSE a
Max2(a, b) ==
    IF a.k = "nan" \/ b.k = "nan" THEN NaN ELSE IF Lt(a, b) THEN b ELSE a

RECURSIVE MinOf(_)
MinOf(xs) == IF xs = <<>> THEN PosInf ELSE Min2(Head(xs), MinOf(Tail(xs)))

\* A minimum that has no value for an empty argument list.
MathMinStrict(xs) == IF xs = <<>> THEN Thrown ELSE MinOf(xs)

\* Math.min(...xs): +Infinity for no arguments, NaN if any argument is NaN.
MathMin(xs) == MinOf(xs)

\* Math.max(...xs): -Infinity for no arguments, NaN if any argument is NaN.
RECURSIVE MathMax(_)
MathMax(xs) == IF xs = <<>> THEN NegInf ELSE Max2(Head(xs), MathMax(Tail(xs)))

----------------------------------------------------------------------------
(* Strings *)

DigitChars == <<"0", "1", "2", "3", "4", "5", "6", "7", "8", "9">>
IsDigit(c) == \E d \in 1..10 : DigitChars[d] = c
DigitVal(c) == (CHOOSE d \in 1..10 : DigitChars[d] = c) - 1

RECURSIVE DigitsValue(_)
DigitsValue(ds) ==
    IF ds = <<>> THEN 0
    ELSE 10 * DigitsValue(SubSeq(ds, 1, Len(ds) - 1)) + DigitVal(ds[Len(ds)])

\* The index after the run of digits of s that starts at i.
RECURSIVE DigitRunEnd(_, _)
DigitRunEnd(s, i) ==
    IF i <= Len(s) /\ IsDigit(s[i]) THEN DigitRunEnd(s, i + 1) ELSE i

\* parseFloat of a string without white space, exponent or "Infinity":
\* an optional sign, digits, an optional point and digits; the longest
\* such prefix is the value, and NaN if it holds no digit.
ParseFloatStr(s) ==
    LET signed  == s # <<>> /\ s[1] \in {"-", "+"}
        neg     == s # <<>> /\ s[1] = "-"
        start   == IF signed THEN 2 ELSE 1
        intEnd  == DigitRunEnd(s, start)
        hasDot  == intEnd <= Len(s) /\ s[intEnd] = "."
        fracEnd == IF hasDot THEN DigitRunEnd(s, intEnd + 1) ELSE intEnd
        nInt    == intEnd - start
        nFrac   == IF hasDot THEN fracEnd - intEnd - 1 ELSE 0
        digits  == SubSeq(s, start, intEnd - 1)
                       \o SubSeq(s, intEnd + 1, fracEnd - 1)
        mag     == DigitsValue(digits)
    IN  IF nInt + nFrac = 0 THEN NaN
        ELSE Norm(IF neg THEN 0 - mag ELSE mag, nFrac)

Str(s) == [t |-> "string", s |-> s]
Undefined == [t |-> "undefined", s |-> <<>>]

\* parseFloat(v): a missing field is undefined, which parses to NaN.
ParseFloat(v) == IF v.t = "string" THEN ParseFloatStr(v.s) ELSE NaN

\* n.toString() for 0 <= n <= 99.
ToStr(n) ==
    IF n < 10 THEN <<DigitChars[n + 1]>>
    ELSE <<DigitChars[(n \div 10) + 1], DigitChars[(n % 10) + 1]>>

\* s.padStart(2, '0')
PadStart2(s) == IF Len(s) < 2 THEN <<"0">> \o s ELSE s

----------------------------------------------------------------------------
(* The wire contract: what the awaited fetch() and response.json() give *)

Statuses == {200, 404, 500}

\* response.ok: the status is in the range 200-299.
Ok(status) == status >= 200 /\ status <= 299

Timestamps == {"2025-03-05T09:07:00", "2025-11-30T18:45:00",
               "2025-12-01T00:00:00", "n/a"}

\* new Date(ts), read in local time, for the timestamps of the model.
NewDate(ts) ==
    CASE ts = "2025-03-05T09:07:00" ->
            [valid |-> TRUE, month |-> 3, day |-> 5, hours |-> 9, minutes |-> 7]
      [] ts = "2025-11-30T18:45:00" ->
            [valid |-> TRUE, month |-> 11, day |-> 30, hours |-> 18, minutes |-> 45]
      [] ts = "2025-12-01T00:00:00" ->
            [valid |-> TRUE, month |-> 12, day |-> 1, hours |-> 0, minutes |-> 0]
      [] OTHER ->
            [valid |-> FALSE, month |-> 0, day |-> 0, hours |-> 0, minutes |-> 0]

\* date.toLocaleString('en-US', { month: 'short' })
MonthShort(d) ==
    IF ~d.valid THEN <<"I","n","v","a","l","i","d"," ","D","a","t","e">>
    ELSE <<<<"J","a","n">>, <<"F","e","b">>, <<"M","a","r">>, <<"A","p","r">>,
           <<"M","a","y">>, <<"J","u","n">>, <<"J","u","l">>, <<"A","u","g">>,
           <<"S","e","p">>, <<"O","c","t">>, <<"N","o","v">>, <<"D","e","c">>
         >>[d.month]

\* date.getDate().toString() and the like: NaN for an invalid date.
PartStr(d, n) == IF d.valid THEN ToStr(n) ELSE <<"N", "a", "N">>

\* `${month}-${day} ${hours}:${minutes}`
FormattedTime(d) ==
    MonthShort(d) \o <<"-">> \o PadStart2(PartStr(d, d.day)) \o <<" ">>
        \o PadStart2(PartStr(d, d.hours)) \o <<":">>
        \o PadStart2(PartStr(d, d.minutes))

Item(ts, b, s) ==
    [kind |-> "object", timestamp |-> ts, buying_rate |-> b, selling_rate |-> s]
NullItem ==
    [kind |-> "null", timestamp |-> "n/a", buying_rate |-> Undefined,
     selling_rate |-> Undefined]

\* The records a response body of the model is made of.
Items ==
    { Item("2025-03-05T09:07:00", Str(<<"4",".","5","5">>), Str(<<"4",".","6","0">>)),
      Item("2025-11-30T18:45:00", Str(<<"4",".","5","0">>), Str(<<"4",".","6","5">>)),
      Item("2025-03-05T09:07:00", Str(<<"5">>), Str(<<"5">>)),
      Item("2025-11-30T18:45:00", Str(<<"0">>), Str(<<"0",".","5">>)),
      Item("2025-12-01T00:00:00", Str(<<"-","1",".","5">>), Str(<<"-","1","0","0","0">>)),
      Item("n/a", Str(<<"a","b","c">>), Undefined),
      Item("2025-12-01T00:00:00", Str(<<"4","7","0",".","2","5">>), Str(<<"4","7","5",".">>)),
      NullItem }

SeqsUpTo(S, n) == UNION { [1..k -> S] : k \in 0..n }

InvalidJson == [kind |-> "invalid", items |-> <<>>]
JsonNull == [kind |-> "null", items |-> <<>>]
JsonObject == [kind |-> "object", items |-> <<>>]
JsonArray(items) == [kind |-> "array", items |-> items]

Bodies ==
    {InvalidJson, JsonNull, JsonObject}
        \cup { JsonArray(s) : s \in SeqsUpTo(Items, MaxRecords) }

Responses == [status : Statuses, body : Bodies]

----------------------------------------------------------------------------
(* fetchData's transformation of the parsed body *)

\* The callback of data.map: the record with formattedTime added and
\* both rates parsed.
Transform(item) ==
    [timestamp    |-> item.timestamp,
     formattedTime |-> FormattedTime(NewDate(item.timestamp)),
     buying_rate  |-> ParseFloat(item.buying_rate),
     selling_rate |-> ParseFloat(item.selling_rate)]

\* data.map(callback)
MapTransform(xs) == [i \in 1..Len(xs) |-> Transform(xs[i])]
Reverse(xs) == [i \in 1..Len(xs) |-> xs[Len(xs) + 1 - i]]

\* data.map(...) without the reverse.
FormatDataUnreversed(items) == MapTransform(items)

\* data.map(...).reverse()
FormatData(items) == Reverse(MapTransform(items))

\* data.map(...) throws a TypeError: data is null, data has no map
\* method, or an item is null and item.timestamp is read.
TransformThrows(data) ==
    \/ data.kind # "array"
    \/ \E i \in 1..Len(data.items) : data.items[i].kind = "null"

----------------------------------------------------------------------------
(* The render function *)

ErrorMessage == "Failed to fetch exchange rate data. Please try again later."

Rates(d) ==
    [i \in 1..Len(d) |-> d[i].buying_rate] \o [i \in 1..Len(d) |-> d[i].selling_rate]

\* The lower bound without the padding factor.
MinRateUnpadded(d) == MathFloor(MathMin(Rates(d)))

MinRate(d) == MathFloor(MulDec(MathMin(Rates(d)), 998, 3))
MaxRate(d) == MathCeil(MulDec(MathMax(Rates(d)), 1002, 3))

\* if (error): null and the empty string are falsy.
Truthy(e) == e # NULL /\ e # ""

\* A render that lacks the early return of the spinner.
RenderNoSpinner(d, l, e) ==
    IF Truthy(e) THEN [kind |-> "Error", message |-> e]
    ELSE [kind |-> "Ready", data |-> d, minRate |-> MinRate(d), maxRate |-> MaxRate(d)]

Render(d, l, e) ==
    IF l THEN [kind |-> "Loading"]
    ELSE IF Truthy(e) THEN [kind |-> "Error", message |-> e]
    ELSE [kind |-> "Ready", data |-> d, minRate |-> MinRate(d), maxRate |-> MaxRate(d)]

----------------------------------------------------------------------------
(* The component *)

NoError == "none"

Init ==
    /\ exchangeData = <<>>
    /\ isLoading = TRUE
    /\ error = NULL
    /\ mounted = TRUE
    /\ pc = "effect"
    /\ effectPending = TRUE
    /\ fetchCount = 0
    /\ response = None
    /\ caught = NoError
    /\ console = <<>>
    /\ calls = <<>>
    /\ view = Render(<<>>, TRUE, NULL)
    /\ shown = {Render(<<>>, TRUE, NULL).kind}
    /\ unmountedAt = "never"

\* An effect that is given no dependency array runs after every render.
EffectRunsAfterEveryRender == TRUE

\* useEffect(..., []): the dependencies never change, so a re-render
\* does not schedule the effect again.
EffectRunsAfterRerender == FALSE

\* A setter that is called only while the component is mounted.
CallSetterIfMounted(fn) ==
    IF mounted THEN Append(calls, [fn |-> fn, mounted |-> mounted]) ELSE calls

\* The code calls the setter whether or not the component is mounted.
CallSetter(fn) == Append(calls, [fn |-> fn, mounted |-> mounted])

\* A call of the state setter fn that leaves the state (d, l, e).  On a
\* mounted component the state changes and the component renders again,
\* unless the state is unchanged; on an unmounted one the update is dropped.
SetState(fn, d, l, e) ==
    /\ calls' = CallSetter(fn)
    /\ IF mounted
       THEN /\ exchangeData' = d
            /\ isLoading' = l
            /\ error' = e
            /\ view' = Render(d, l, e)
            /\ shown' = shown \cup {Render(d, l, e).kind}
            /\ effectPending' =
                  IF fn = "setExchangeData" \/ <<d, l, e>> # <<exchangeData, isLoading, error>>
                  THEN effectPending \/ EffectRunsAfterRerender
                  ELSE effectPending
       ELSE UNCHANGED <<exchangeData, isLoading, error, view, shown, effectPending>>

\* The mount effect: fetchData() up to its first await.
RunEffect ==
    /\ effectPending
    /\ mounted
    /\ fetchCount < MaxFetch
    /\ calls' = CallSetter("setIsLoading")
    /\ isLoading' = TRUE
    /\ view' = Render(exchangeData, TRUE, error)
    /\ shown' = shown \cup {Render(exchangeData, TRUE, error).kind}
    /\ effectPending' = FALSE
    /\ fetchCount' = fetchCount + 1
    /\ pc' = "awaitFetch"
    /\ UNCHANGED <<exchangeData, error, mounted, response, caught, console, unmountedAt>>

\* A catch block that shows the cause to the user.
CatchShowsCause(err) ==
    /\ caught' = err
    /\ console' = Append(console, err)
    /\ SetState("setError", exchangeData, isLoading, err)
    /\ pc' = "L54"

\* catch (err): console.error, setError.
Catch(err) ==
    /\ caught' = err
    /\ console' = Append(console, err)
    /\ SetState("setError", exchangeData, isLoading, ErrorMessage)
    /\ pc' = "L54"

\* setIsLoading(false) of the catch block.
CatchSetIsLoading ==
    /\ pc = "L54"
    /\ SetState("setIsLoading", exchangeData, FALSE, error)
    /\ pc' = "done"
    /\ UNCHANGED <<mounted, fetchCount, response, caught, console, unmountedAt>>

\* fetch() rejects: a network failure.
FetchReject ==
    /\ pc = "awaitFetch"
    /\ Catch("TypeError: Failed to fetch")
    /\ UNCHANGED <<mounted, fetchCount, response, unmountedAt>>

HttpError(status) ==
    CASE status = 404 -> "Error: API request failed with status 404"
      [] status = 500 -> "Error: API request failed with status 500"
      [] OTHER -> "Error: API request failed with status 200"

\* A continuation that does not look at response.ok.
FetchResolveUnchecked ==
    /\ pc = "awaitFetch"
    /\ \E r \in Responses :
          /\ response' = r
          /\ pc' = "awaitJson"
          /\ UNCHANGED <<exchangeData, isLoading, error, effectPending, caught,
                         console, calls, view, shown>>
    /\ UNCHANGED <<mounted, fetchCount, unmountedAt>>

\* fetch() resolves: throw if the status is not 2xx, else call response.json().
FetchResolve ==
    /\ pc = "awaitFetch"
    /\ \E r \in Responses :
          /\ response' = r
          /\ IF ~Ok(r.status)
             THEN Catch(HttpError(r.status))
             ELSE /\ pc' = "awaitJson"
                  /\ UNCHANGED <<exchangeData, isLoading, error, effectPending,
                                 caught, console, calls, view, shown>>
    /\ UNCHANGED <<mounted, fetchCount, unmountedAt>>

\* response.json() rejects: the body is not JSON.
JsonReject ==
    /\ pc = "awaitJson"
    /\ response.body.kind = "invalid"
    /\ Catch("SyntaxError: Unexpected token")
    /\ UNCHANGED <<mounted, fetchCount, response, unmountedAt>>

\* A continuation that stores the records it has transformed before the
\* one that throws.
JsonResolveStoresFirst ==
    /\ pc = "awaitJson"
    /\ response.body.kind # "invalid"
    /\ LET data == response.body
       IN  IF TransformThrows(data)
           THEN /\ caught' = "TypeError: Cannot read properties"
                /\ console' = Append(console, "TypeError: Cannot read properties")
                /\ SetState("setError",
                            IF data.kind = "array"
                            THEN FormatData(SelectSeq(data.items, LAMBDA it : it.kind # "null"))
                            ELSE exchangeData,
                            isLoading, ErrorMessage)
                /\ pc' = "L54"
           ELSE /\ SetState("setExchangeData", FormatData(data.items), isLoading, error)
                /\ pc' = "L49"
                /\ UNCHANGED <<caught, console>>
    /\ UNCHANGED <<mounted, fetchCount, response, unmountedAt>>

\* A continuation that ends the loading state before it stores the data.
JsonResolveEndsLoadingFirst ==
    /\ pc = "awaitJson"
    /\ response.body.kind # "invalid"
    /\ LET data == response.body
       IN  IF TransformThrows(data)
           THEN Catch("TypeError: Cannot read properties")
           ELSE /\ SetState("setIsLoading", exchangeData, FALSE, error)
                /\ pc' = "L49"
                /\ UNCHANGED <<caught, console>>
    /\ UNCHANGED <<mounted, fetchCount, response, unmountedAt>>

\* response.json() resolves: map, reverse, setExchangeData; a TypeError
\* of the map goes to the catch block.
JsonResolve ==
    /\ pc = "awaitJson"
    /\ response.body.kind # "invalid"
    /\ LET data == response.body
       IN  IF TransformThrows(data)
           THEN Catch("TypeError: Cannot read properties")
           ELSE /\ SetState("setExchangeData", FormatData(data.items), isLoading, error)
                /\ pc' = "L49"
                /\ UNCHANGED <<caught, console>>
    /\ UNCHANGED <<mounted, fetchCount, response, unmountedAt>>

\* setIsLoading(false) of the try block.
SetIsLoadingFalse ==
    /\ pc = "L49"
    /\ SetState("setIsLoading", exchangeData, FALSE, error)
    /\ pc' = "done"
    /\ UNCHANGED <<mounted, fetchCount, response, caught, console, unmountedAt>>

\* The parent removes the component: while fetchData waits, or after it.
Unmount ==
    /\ mounted
    /\ pc \in {"awaitFetch", "awaitJson", "done"}
    /\ mounted' = FALSE
    /\ view' = [kind |-> "Unmounted"]
    /\ unmountedAt' = pc
    /\ UNCHANGED <<exchangeData, isLoading, error, pc, effectPending, fetchCount,
                   response, caught, console, calls, shown>>

Next ==
    \/ RunEffect
    \/ FetchReject
    \/ FetchResolve
    \/ JsonReject
    \/ JsonResolve
    \/ SetIsLoadingFalse
    \/ CatchSetIsLoading
    \/ Unmount

Spec == Init /\ [][Next]_vars

----------------------------------------------------------------------------
(* Properties *)

Resolved == response # None
SetterCalledMounted(fn) == \E j \in 1..Len(calls) : calls[j].fn = fn /\ calls[j].mounted
LateCalls == SelectSeq(calls, LAMBDA c : ~c.mounted)
AllRates(d) == {d[i].buying_rate : i \in 1..Len(d)} \cup {d[i].selling_rate : i \in 1..Len(d)}
Positive(x) == x.k = "fin" /\ x.n > 0

\* C1: when the fetch resolves with a status that is not 2xx, the chart
\* view has never been rendered and is not rendered later, and once
\* fetchData has finished on the mounted component the view is the error
\* view, with isLoading false and error set.
C1_NonOkEndsInError ==
    (Resolved /\ ~Ok(response.status)) =>
        /\ "Ready" \notin shown
        /\ view.kind # "Ready"
        /\ (pc = "done" /\ mounted) =>
              (view.kind = "Error" /\ ~isLoading /\ error # NULL)

C1_Witness ==
    /\ Resolved /\ response.status = 404
    /\ pc = "done" /\ mounted
    /\ view.kind = "Error"

\* C2: whatever the cause of the failure (network, HTTP status, body
\* parse, transform), the value stored in error and shown in the error
\* view is the one fixed message, and the cause itself is what is logged.
C2_OneMessage ==
    /\ error # NULL => error = ErrorMessage
    /\ caught # NoError => console = <<caught>>
    /\ (caught # NoError /\ SetterCalledMounted("setError")) => error = ErrorMessage
    /\ view.kind = "Error" => view.message = ErrorMessage

C2_Witness ==
    /\ caught = "TypeError: Cannot read properties"
    /\ console = <<caught>>
    /\ view.kind = "Error"
    /\ view.message = ErrorMessage

\* C3: after a successful response with n records, exchangeData has n
\* elements, its i-th element is the transform of the (n+1-i)-th record
\* of the response (counting from 1), and the chart is given that sequence.
C3_ReversedOrder ==
    (pc \in {"L49", "done"} /\ SetterCalledMounted("setExchangeData")) =>
        LET items == response.body.items
            n == Len(items)
        IN  /\ Len(exchangeData) = n
            /\ \A i \in 1..n : exchangeData[i] = Transform(items[n + 1 - i])
            /\ view.kind = "Ready" => view.data = exchangeData

C3_Witness ==
    /\ pc = "done"
    /\ view.kind = "Ready"
    /\ Len(view.data) = 3
    /\ view.data[1] # view.data[3]
    /\ view.data[1] = Transform(response.body.items[3])

\* C4: a successful response with the empty array ends in the chart view
\* with an empty series; the axis bounds over no rates are the numbers
\* +Infinity and -Infinity, nothing is caught and the error view is never
\* rendered.
C4_EmptyArrayReady ==
    (Resolved /\ Ok(response.status) /\ response.body = JsonArray(<<>>)
              /\ pc = "done" /\ mounted) =>
        /\ view = [kind |-> "Ready", data |-> <<>>, minRate |-> PosInf, maxRate |-> NegInf]
        /\ exchangeData = <<>>
        /\ error = NULL
        /\ caught = NoError
        /\ "Error" \notin shown

C4_Witness ==
    /\ Resolved /\ response.body = JsonArray(<<>>)
    /\ pc = "done" /\ mounted
    /\ view.kind = "Ready"
    /\ view.data = <<>>

\* C5: the first view is the loading view; from the loading view the next
\* view is the loading, chart or error view; a chart or error view never
\* changes again while the component is mounted.
C5_ViewMachine ==
    /\ view.kind = "Loading"
    /\ [][ /\ view.kind = "Loading" =>
                view'.kind \in {"Loading", "Ready", "Error", "Unmounted"}
           /\ view.kind \in {"Ready", "Error"} =>
                (view' = view \/ view'.kind = "Unmounted")
           /\ view.kind = "Unmounted" => view'.kind = "Unmounted" ]_vars

C5_Witness ==
    /\ pc = "done" /\ mounted
    /\ shown = {"Loading", "Ready"}
    /\ Len(calls) = 3

\* C6: one mounted instance calls fetch at most once, and exactly once
\* from the time its mount effect has run, however the fetch ends and
\* however often the component has rendered again.
C6_OneFetch ==
    /\ fetchCount <= 1
    /\ pc # "effect" => (fetchCount = 1 /\ ~effectPending)

C6_Witness ==
    /\ pc = "done"
    /\ fetchCount = 1
    /\ Cardinality(shown) = 2
    /\ Len(calls) = 3
    /\ \A j \in 1..3 : calls[j].mounted

\* C7 as stated: in the chart view of a non-empty sequence every rate is
\* strictly between minRate and maxRate.
C7_AllRatesInside ==
    (view.kind = "Ready" /\ view.data # <<>>) =>
        \A r \in AllRates(view.data) : Lt(view.minRate, r) /\ Lt(r, view.maxRate)

\* C7 as amended: in the chart view of a non-empty sequence whose rates
\* are all finite and greater than 0, every rate is strictly between
\* minRate and maxRate.
C7_PositiveRatesInside ==
    (view.kind = "Ready" /\ view.data # <<>>
                         /\ \A r \in AllRates(view.data) : Positive(r)) =>
        \A r \in AllRates(view.data) : Lt(view.minRate, r) /\ Lt(r, view.maxRate)

C7_Witness ==
    /\ view.kind = "Ready"
    /\ Len(view.data) >= 2
    /\ \A r \in AllRates(view.data) : Positive(r)
    /\ \E r \in AllRates(view.data) : r.e = 0
    /\ \E r \in AllRates(view.data) : r.e > 0

\* C8: when the component is unmounted while fetchData waits and
\* fetchData then runs to its end, both setters of the path taken have
\* been called on the unmounted component: setExchangeData and
\* setIsLoading after a success, setError and setIsLoading after a failure.
C8_UpdatesAfterUnmount ==
    (pc = "done" /\ unmountedAt \in {"awaitFetch", "awaitJson"}) =>
        /\ Len(LateCalls) = 2
        /\ LateCalls[1].fn = (IF caught = NoError THEN "setExchangeData" ELSE "setError")
        /\ LateCalls[2].fn = "setIsLoading"

C8_Witness ==
    /\ pc = "done"
    /\ unmountedAt = "awaitFetch"
    /\ ~mounted
    /\ Len(LateCalls) = 2
    /\ LateCalls[1].fn = "setExchangeData"

\* C9: error and data are never both set, and nothing is caught once
\* setExchangeData has been called.
C9_NoErrorWithData ==
    /\ error # NULL => exchangeData = <<>>
    /\ exchangeData # <<>> => error = NULL
    /\ (\E j \in 1..Len(calls) : calls[j].fn = "setExchangeData") =>
           (caught = NoError /\ console = <<>>)

C9_Witness ==
    /\ error # NULL
    /\ exchangeData = <<>>
    /\ Resolved /\ Ok(response.status)
    /\ response.body.kind = "array"
    /\ \E i \in 1..Len(response.body.items) : response.body.items[i].kind = "object"

\* C10: with every setter rendered on its own, the view between the two
\* setters of either path is the loading view, the chart view is rendered
\* only when exchangeData holds the transformed response, and it is never
\* rendered once something has been caught.
C10_NoWrongIntermediateView ==
    /\ (pc \in {"L49", "L54"} /\ mounted) => view.kind = "Loading"
    /\ view.kind = "Ready" =>
          /\ Resolved
          /\ caught = NoError
          /\ exchangeData = FormatData(response.body.items)
          /\ view.data = exchangeData
    /\ caught # NoError => "Ready" \notin shown

C10_Witness ==
    /\ pc = "L49" /\ mounted
    /\ view.kind = "Loading"
    /\ exchangeData # <<>>
    /\ error = NULL

====
